---- MODULE Spec2Model ----
(***************************************************************************)
(* Feedback-driven chunk residency: the World / Chunk data model of        *)
(* src/src/voxels.rs and the feedback read-back state machine of           *)
(* src/src/raycast_hierarchy_feedback/pipeline.rs, driven by the frame     *)
(* loop of src/src/main.rs (extract, then render, then queue.submit).      *)
(***************************************************************************)
EXTENDS Integers, Sequences, FiniteSets, TLC

\* ------------------------------------------------------------------------
\* Bounds of the model (not program constants)
\* ------------------------------------------------------------------------
\* feedback slots the render pass may write in the model: 1..MaxSlot
MaxSlot == 2
\* distinct non-zero request values a shader invocation may write: 1..MaxReq
MaxReq == 2
\* block ids written through set_chunk_block: 0..MaxId
MaxId == 2
\* world coordinates handed to pos_to_chunk_and_inner: -MaxCoord..MaxCoord
MaxCoord == 33
\* the version counter of a chunk is bumped at most up to MaxVersion
MaxVersion == 2
\* threads that take guards on chunks: 1..MaxThreads
MaxThreads == 2

\* ------------------------------------------------------------------------
\* Program constants
\* ------------------------------------------------------------------------
CHUNK_SIDE == 32
CHUNK_AREA == CHUNK_SIDE * CHUNK_SIDE
CHUNK_VOLUME == CHUNK_AREA * CHUNK_SIDE
FEEDBACK_BUFFER_SIZE == 16

VARIABLES
    \* ---- World (voxels.rs) ----
    chunks,         \* Universe.chunks : chunk coordinate -> Chunk
    last_op,        \* the last World call made by the simulation and its result
    held,           \* per thread, the RwLock guards it holds: <<chunk, "read" | "write">>
    twin,           \* the Universe obtained by universe.clone(), once one was made
    \* ---- Pipeline (pipeline.rs) ----
    status,         \* feedback_read_available : FeedbackReadStatus
    buf_map,        \* map state of feedback_cpu_buffer (wgpu::Buffer)
    feedback_gpu,   \* contents of feedback_gpu_bind_group.buffer[0]
    feedback_cpu,   \* contents of feedback_cpu_buffer
    write_queued,   \* queue.write_buffer(Feedback::empty()) staged, not yet submitted
    stream_buffer,  \* contents of the Stream Buffer (voxels_bind_group.buffer[2])
    resident,       \* chunks present in the Resident Grid (voxels_bind_group.buffer[0..1])
    loaded_chunks,  \* Residency Tracker : chunk coordinate -> version
    skip,           \* Pipeline.skip
    panicked,       \* the map_async callback has panicked
    \* ---- the frame in progress (main.rs RedrawRequested) ----
    pc,             \* position of the tick loop
    st,             \* extract's local `status` (line 302), "none" outside the match
    feed,           \* extract's local `feed` (line 322), <<>> when not read
    reload,         \* extract's local `reload`
    encoder,        \* commands recorded in the frame's CommandEncoder
    seen,           \* chunk.version as the last extract that found the chunk saw it, -1 if none
    views           \* mapped views taken since the last successful map completion

worldVars == <<chunks, last_op, held, twin>>
bufVars == <<feedback_gpu, feedback_cpu, write_queued, stream_buffer, resident>>
syncVars == <<status, buf_map, panicked, views>>
tickVars == <<pc, st, feed, reload, encoder, loaded_chunks, seen, skip>>
vars == <<chunks, last_op, held, twin, status, buf_map, feedback_gpu, feedback_cpu,
          write_queued, stream_buffer, resident, loaded_chunks, skip, panicked,
          pc, st, feed, reload, encoder, seen, views>>

\* ========================================================================
\* voxels.rs
\* ========================================================================
IVec3ZERO == <<0, 0, 0>>

\* struct Block; Block::default() is all zero
BlockDefault == [id |-> 0, properties |-> 0, light0 |-> 0, light1 |-> 0]

Block_from_id(id) == [id |-> id, properties |-> 0, light0 |-> 0, light1 |-> 0]

\* variant: the truncating `/` of i32 instead of div_euclid
div_truncating(a, n) == IF a >= 0 THEN a \div n ELSE -((-a) \div n)

\* i32::div_euclid / rem_euclid with the positive divisor CHUNK_SIDE:
\* the quotient is rounded towards minus infinity, the remainder is in 0..31
div_euclid(a, n) == IF a >= 0 THEN a \div n ELSE -(((-a) + n - 1) \div n)

rem_euclid(a, n) == a - n * div_euclid(a, n)

pos_to_chunk_and_inner(pos) ==
    [chunk_pos |-> <<div_euclid(pos[1], CHUNK_SIDE) * CHUNK_SIDE,
                     div_euclid(pos[2], CHUNK_SIDE) * CHUNK_SIDE,
                     div_euclid(pos[3], CHUNK_SIDE) * CHUNK_SIDE>>,
     inner_pos |-> <<rem_euclid(pos[1], CHUNK_SIDE),
                     rem_euclid(pos[2], CHUNK_SIDE),
                     rem_euclid(pos[3], CHUNK_SIDE)>>]

xyz2idx(xyz) == xyz[1] * CHUNK_AREA + xyz[2] * CHUNK_SIDE + xyz[3]

\* variant: y and z are taken from the wrong digits
idx2xyz_Swapped(index) ==
    LET layer == index \div CHUNK_SIDE
    IN  <<layer \div CHUNK_SIDE, index % CHUNK_SIDE, layer % CHUNK_SIDE>>

idx2xyz(index) ==
    LET layer == index \div CHUNK_SIDE
    IN  <<layer \div CHUNK_SIDE, layer % CHUNK_SIDE, index % CHUNK_SIDE>>

\* World coordinates the simulation reads and writes in the model.
Positions == { <<0, 0, 0>>, <<16, 16, 16>>, <<31, 0, 0>>,
               <<-1, -1, -1>>, <<32, 0, 31>> }

\* Positions inside chunk (0,0,0) at which the sphere of simple_universe is
\* probed: the centre, both ends of every axis and the cells next to them.
SphereCoords == {0, 1, CHUNK_SIDE \div 2, CHUNK_SIDE - 1}

SpherePositions == SphereCoords \X SphereCoords \X SphereCoords

\* Blocks the simulation writes in the model.
Blocks == { Block_from_id(i) : i \in 0..MaxId }
            \cup { [id |-> 1, properties |-> 1, light0 |-> 0, light1 |-> 0] }

\* The elements of a chunk's [Block; CHUNK_VOLUME] array that the modelled
\* positions address; no modelled operation touches any other element.
TrackedIdx ==
    { xyz2idx(pos_to_chunk_and_inner(p).inner_pos) : p \in Positions \cup SpherePositions }

\* Chunk::empty().  `version` is the counter Pipeline::extract reads as
\* chunk.version; struct Chunk declares no such field and no operation of
\* voxels.rs assigns it, so it keeps the value it is created with.
Chunk_empty ==
    [blocks |-> [i \in TrackedIdx |-> BlockDefault],
     dirty_render |-> FALSE,
     version |-> 0]

Chunk_set_block(chunk, xyz, block) ==
    [chunk EXCEPT !.blocks[xyz2idx(xyz)] = block]

Chunk_read_block(chunk, xyz) == chunk.blocks[xyz2idx(xyz)]

distance_squared(a, b) ==
    (a[1] - b[1]) * (a[1] - b[1]) + (a[2] - b[2]) * (a[2] - b[2])
        + (a[3] - b[3]) * (a[3] - b[3])

\* variant: the surface of the sphere counts as inside
SphereBlock_Inclusive(xyz) ==
    IF distance_squared(xyz, <<CHUNK_SIDE \div 2, CHUNK_SIDE \div 2, CHUNK_SIDE \div 2>>)
           <= 16 * 16
    THEN Block_from_id(xyz[1] % 256)
    ELSE Block_from_id(0)

\* the block simple_universe stores at xyz (one set_block per Chunk::iter item)
SphereBlock(xyz) ==
    IF distance_squared(xyz, <<CHUNK_SIDE \div 2, CHUNK_SIDE \div 2, CHUNK_SIDE \div 2>>)
           < 16 * 16
    THEN Block_from_id(xyz[1] % 256)
    ELSE Block_from_id(0)

\* Chunk::iter() yields idx2xyz(i) for i in 0..CHUNK_VOLUME and the loop stores
\* SphereBlock(xyz) at element xyz2idx(xyz): element j ends with the block of
\* the last item that addresses it, or stays Block::default() if none does.
simple_universe ==
    [c \in {IVec3ZERO} |->
        [Chunk_empty EXCEPT !.blocks =
            [j \in TrackedIdx |->
                LET hits == { i \in 0..(CHUNK_VOLUME - 1) : xyz2idx(idx2xyz(i)) = j }
                IN  IF hits = {} THEN BlockDefault
                    ELSE SphereBlock(idx2xyz(CHOOSE i \in hits : \A k \in hits : k <= i))]]]

\* Universe::default(): no chunks
Universe_default == [c \in {} |-> Chunk_empty]

\* Option<Block>: <<>> is None, <<b>> is Some(b)
read_chunk_block(u, pos) ==
    LET r == pos_to_chunk_and_inner(pos)
    IN  IF r.chunk_pos \in DOMAIN u
        THEN <<Chunk_read_block(u[r.chunk_pos], r.inner_pos)>>
        ELSE <<>>

\* variant: a write to an absent chunk inserts the new chunk without the block
set_chunk_block_InsertsEmpty(u, pos, block) ==
    LET r == pos_to_chunk_and_inner(pos)
    IN  IF r.chunk_pos \in DOMAIN u
        THEN [u EXCEPT ![r.chunk_pos] =
                 [Chunk_set_block(u[r.chunk_pos], r.inner_pos, block)
                     EXCEPT !.dirty_render = TRUE]]
        ELSE [c \in DOMAIN u \cup {r.chunk_pos} |->
                 IF c = r.chunk_pos
                 THEN [Chunk_empty EXCEPT !.dirty_render = TRUE]
                 ELSE u[c]]

\* variant: a write to an existing chunk forgets to set dirty_render
set_chunk_block_NoDirty(u, pos, block) ==
    LET r == pos_to_chunk_and_inner(pos)
    IN  IF r.chunk_pos \in DOMAIN u
        THEN [u EXCEPT ![r.chunk_pos] =
                 Chunk_set_block(u[r.chunk_pos], r.inner_pos, block)]
        ELSE [c \in DOMAIN u \cup {r.chunk_pos} |->
                 IF c = r.chunk_pos
                 THEN [Chunk_set_block(Chunk_empty, r.inner_pos, block)
                          EXCEPT !.dirty_render = TRUE]
                 ELSE u[c]]

set_chunk_block(u, pos, block) ==
    LET r == pos_to_chunk_and_inner(pos)
    IN  IF r.chunk_pos \in DOMAIN u
        THEN [u EXCEPT ![r.chunk_pos] =
                 [Chunk_set_block(u[r.chunk_pos], r.inner_pos, block)
                     EXCEPT !.dirty_render = TRUE]]
        ELSE [c \in DOMAIN u \cup {r.chunk_pos} |->
                 IF c = r.chunk_pos
                 THEN [Chunk_set_block(Chunk_empty, r.inner_pos, block)
                          EXCEPT !.dirty_render = TRUE]
                 ELSE u[c]]

\* ---- the per-chunk lock: _blocks is Arc<RwLock<[Block; CHUNK_VOLUME]>> ----
Threads == 1..MaxThreads

\* variant: every chunk shares one lock
LockOf_Shared(c) == IVec3ZERO

\* the RwLock guarding the array of the chunk at c: Chunk::empty allocates a
\* fresh Arc<RwLock<..>> for every chunk it creates
LockOf(c) == c

Holders(c, mode) ==
    { t \in Threads : \E g \in held[t] : LockOf(g[1]) = LockOf(c) /\ g[2] = mode }

\* RwLock::read returns while no writer holds the lock
CanRead(c) == Holders(c, "write") = {}

\* RwLock::write returns while nobody holds the lock
CanWrite(c) == Holders(c, "write") = {} /\ Holders(c, "read") = {}

\* Chunk::get_ref
Chunk_get_ref(t, c) ==
    /\ c \in DOMAIN chunks
    /\ \A g \in held[t] : g[1] # c
    /\ CanRead(c)
    /\ held' = [held EXCEPT ![t] = @ \cup {<<c, "read">>}]
    /\ UNCHANGED <<chunks, last_op, twin, bufVars, syncVars, tickVars>>

\* Chunk::get_mut
Chunk_get_mut(t, c) ==
    /\ c \in DOMAIN chunks
    /\ \A g \in held[t] : g[1] # c
    /\ CanWrite(c)
    /\ held' = [held EXCEPT ![t] = @ \cup {<<c, "write">>}]
    /\ UNCHANGED <<chunks, last_op, twin, bufVars, syncVars, tickVars>>

\* the guard returned by get_ref / get_mut goes out of scope
DropGuard(t, g) ==
    /\ g \in held[t]
    /\ held' = [held EXCEPT ![t] = @ \ {g}]
    /\ UNCHANGED <<chunks, last_op, twin, bufVars, syncVars, tickVars>>

NoOp == [op |-> "none", pos |-> IVec3ZERO, block |-> BlockDefault, ret |-> <<>>]

\* the simulation writes a block
WriteBlock ==
    \E p \in Positions, b \in Blocks :
        /\ pos_to_chunk_and_inner(p).chunk_pos \in DOMAIN chunks
               => CanWrite(pos_to_chunk_and_inner(p).chunk_pos)
        /\ chunks' = set_chunk_block(chunks, p, b)
        /\ last_op' = [op |-> "set", pos |-> p, block |-> b, ret |-> <<>>]
        /\ UNCHANGED <<held, twin, bufVars, syncVars, tickVars>>

\* variant: a read of an absent chunk creates it and returns the default Block
ReadBlock_CreatesChunk ==
    \E p \in Positions :
        LET r == pos_to_chunk_and_inner(p)
            u == IF r.chunk_pos \in DOMAIN chunks
                 THEN chunks
                 ELSE [c \in DOMAIN chunks \cup {r.chunk_pos} |->
                          IF c = r.chunk_pos THEN Chunk_empty ELSE chunks[c]]
        IN  /\ chunks' = u
            /\ last_op' = [op |-> "read", pos |-> p, block |-> BlockDefault,
                           ret |-> read_chunk_block(u, p)]
            /\ UNCHANGED <<held, twin, bufVars, syncVars, tickVars>>

\* the simulation reads a block
ReadBlock ==
    \E p \in Positions :
        /\ pos_to_chunk_and_inner(p).chunk_pos \in DOMAIN chunks
               => CanRead(pos_to_chunk_and_inner(p).chunk_pos)
        /\ last_op' = [op |-> "read", pos |-> p, block |-> BlockDefault,
                       ret |-> read_chunk_block(chunks, p)]
        /\ UNCHANGED <<chunks, held, twin, bufVars, syncVars, tickVars>>

\* ---- #[derive(Clone)] on Chunk and Universe ----
\* no clone has been made
NoTwin == [made |-> FALSE, chunks |-> [c \in {} |-> Chunk_empty]]

\* variant: the clone gets an array of its own, holding a copy of the blocks
Chunk_clone_Deep(chunk) ==
    [cloned |-> TRUE, arc |-> "own", blocks |-> chunk.blocks,
     dirty_render |-> chunk.dirty_render]

\* Chunk::clone: _blocks is an Arc, whose clone points to the same
\* RwLock<[Block; CHUNK_VOLUME]> ("shared": the array is the original's);
\* dirty_render is a bool, copied by value.  `cloned` records that the chunk
\* came out of a clone.
Chunk_clone(chunk) ==
    [cloned |-> TRUE, arc |-> "shared", blocks |-> <<>>,
     dirty_render |-> chunk.dirty_render]

\* Universe::clone: HashMap::clone clones every Chunk
Universe_clone(u) ==
    [made |-> TRUE, chunks |-> [c \in DOMAIN u |-> Chunk_clone(u[c])]]

\* the array behind the clone's chunk at c
TwinArray(u, t, c) ==
    IF t.chunks[c].arc = "shared" THEN u[c].blocks ELSE t.chunks[c].blocks

\* read_chunk_block called on the clone
read_twin_block(u, t, pos) ==
    LET r == pos_to_chunk_and_inner(pos)
    IN  IF r.chunk_pos \in DOMAIN t.chunks
        THEN <<TwinArray(u, t, r.chunk_pos)[xyz2idx(r.inner_pos)]>>
        ELSE <<>>

\* Positions and blocks written while a clone exists: one position in the
\* chunk that exists when the clone is made, one in a chunk created later.
ClonePositions == { <<16, 16, 16>>, <<32, 0, 31>> }

CloneBlocks == { Block_from_id(i) : i \in 1..MaxId }

\* universe.clone()
CloneUniverse ==
    /\ ~twin.made
    /\ twin' = Universe_clone(chunks)
    /\ last_op' = [NoOp EXCEPT !.op = "clone"]
    /\ UNCHANGED <<chunks, held, bufVars, syncVars, tickVars>>

\* set_chunk_block called on the original while a clone may exist
WriteOriginal ==
    \E p \in ClonePositions, b \in CloneBlocks :
        /\ chunks' = set_chunk_block(chunks, p, b)
        /\ last_op' = [op |-> "set", pos |-> p, block |-> b, ret |-> <<>>]
        /\ UNCHANGED <<held, twin, bufVars, syncVars, tickVars>>

\* set_chunk_block called on the clone: an existing chunk gets set_block on
\* the array its Arc points to and its own dirty_render set; an absent chunk
\* is created in the clone's map only
WriteTwin ==
    /\ twin.made
    /\ \E p \in ClonePositions, b \in CloneBlocks :
          LET r == pos_to_chunk_and_inner(p)
              c == r.chunk_pos
              i == xyz2idx(r.inner_pos)
          IN  /\ IF c \in DOMAIN twin.chunks
                 THEN IF twin.chunks[c].arc = "shared"
                      THEN /\ chunks' = [chunks EXCEPT ![c].blocks[i] = b]
                           /\ twin' = [twin EXCEPT !.chunks[c].dirty_render = TRUE]
                      ELSE /\ chunks' = chunks
                           /\ twin' = [twin EXCEPT !.chunks[c].blocks[i] = b,
                                                    !.chunks[c].dirty_render = TRUE]
                 ELSE /\ chunks' = chunks
                      /\ twin' = [twin EXCEPT !.chunks =
                            [d \in DOMAIN twin.chunks \cup {c} |->
                               IF d = c
                               THEN [cloned |-> FALSE, arc |-> "own",
                                     blocks |-> [Chunk_empty.blocks EXCEPT ![i] = b],
                                     dirty_render |-> TRUE]
                               ELSE twin.chunks[d]]]
              /\ last_op' = [op |-> "set_twin", pos |-> p, block |-> b, ret |-> <<>>]
    /\ UNCHANGED <<held, bufVars, syncVars, tickVars>>

\* read_chunk_block called on the original
ReadOriginal ==
    \E p \in ClonePositions :
        /\ last_op' = [op |-> "read", pos |-> p, block |-> BlockDefault,
                       ret |-> read_chunk_block(chunks, p)]
        /\ UNCHANGED <<chunks, held, twin, bufVars, syncVars, tickVars>>

\* read_chunk_block called on the clone
ReadTwin ==
    /\ twin.made
    /\ \E p \in ClonePositions :
          last_op' = [op |-> "read_twin", pos |-> p, block |-> BlockDefault,
                      ret |-> read_twin_block(chunks, twin, p)]
    /\ UNCHANGED <<chunks, held, twin, bufVars, syncVars, tickVars>>

\* read_block on the position drawn at start
ReadProbe ==
    /\ last_op.op = "probe"
    /\ last_op' = [last_op EXCEPT !.op = "read",
                                  !.ret = read_chunk_block(chunks, last_op.pos)]
    /\ UNCHANGED <<chunks, held, twin, bufVars, syncVars, tickVars>>

\* Chunk::idx2xyz then Chunk::xyz2idx on the index drawn at start
IndexThere ==
    /\ last_op.op = "index"
    /\ last_op' = [last_op EXCEPT
                      !.op = "idx2xyz",
                      !.pos = idx2xyz(last_op.ret[1]),
                      !.ret = <<last_op.ret[1], xyz2idx(idx2xyz(last_op.ret[1]))>>]
    /\ UNCHANGED <<chunks, held, twin, bufVars, syncVars, tickVars>>

\* Chunk::xyz2idx then Chunk::idx2xyz on the inner coordinate drawn at start
CoordThere ==
    /\ last_op.op = "inner"
    /\ last_op' = [last_op EXCEPT
                      !.op = "xyz2idx",
                      !.ret = <<xyz2idx(last_op.pos), idx2xyz(xyz2idx(last_op.pos))>>]
    /\ UNCHANGED <<chunks, held, twin, bufVars, syncVars, tickVars>>

\* Coordinates handed to pos_to_chunk_and_inner: each axis in turn sweeps
\* -MaxCoord..MaxCoord while the other two sit on chunk borders.
BorderCoords == {-1, 0, CHUNK_SIDE}

CoordInputs ==
    LET R == (-MaxCoord)..MaxCoord
    IN  { <<a, b, c>> : a \in R, b \in BorderCoords, c \in BorderCoords }
            \cup { <<b, a, c>> : a \in R, b \in BorderCoords, c \in BorderCoords }
            \cup { <<b, c, a>> : a \in R, b \in BorderCoords, c \in BorderCoords }

\* a call of Universe::pos_to_chunk_and_inner on the coordinate drawn at start
ResolvePos ==
    /\ last_op.op = "arg"
    /\ last_op' = [last_op EXCEPT
                      !.op = "resolve",
                      !.ret = <<pos_to_chunk_and_inner(last_op.pos).chunk_pos,
                                pos_to_chunk_and_inner(last_op.pos).inner_pos>>]
    /\ UNCHANGED <<chunks, held, twin, bufVars, syncVars, tickVars>>

\* ========================================================================
\* raycast_hierarchy_feedback/pipeline.rs
\* ========================================================================
Slots == 1..FEEDBACK_BUFFER_SIZE

\* Feedback::empty(): every requested[i] is Vec4::ZERO (0 in the model)
Feedback_empty == [i \in Slots |-> 0]

\* Stream Buffer as created: CHUNK_VOLUME * 4 * FEEDBACK_BUFFER_SIZE zero bytes,
\* one payload slot per feedback slot (0 is a zeroed slot)
StreamEmpty == [i \in Slots |-> 0]

FeedbackReadStatus == {"Idle", "WaitForRead", "Mapped"}

\* ---- Pipeline::extract ------------------------------------------------
\* variant: a changed version is flagged but not stored in the tracker
ExtractResolve_KeepsOldVersion ==
    /\ pc = "frame"
    /\ IF IVec3ZERO \notin DOMAIN chunks
       THEN /\ pc' = "render"
            /\ UNCHANGED <<loaded_chunks, reload, seen>>
       ELSE /\ pc' = "x_status"
            /\ seen' = chunks[IVec3ZERO].version
            /\ IF IVec3ZERO \in DOMAIN loaded_chunks
               THEN IF chunks[IVec3ZERO].version # loaded_chunks[IVec3ZERO]
                    THEN /\ UNCHANGED loaded_chunks
                         /\ reload' = TRUE
                    ELSE /\ reload' = FALSE
                         /\ UNCHANGED loaded_chunks
               ELSE /\ loaded_chunks' = [c \in {IVec3ZERO} |-> chunks[IVec3ZERO].version]
                    /\ reload' = TRUE
    /\ UNCHANGED <<worldVars, bufVars, syncVars, st, feed, encoder, skip>>

\* variant: the first load of a chunk is stored but not flagged
ExtractResolve_FirstLoadSilent ==
    /\ pc = "frame"
    /\ IF IVec3ZERO \notin DOMAIN chunks
       THEN /\ pc' = "render"
            /\ UNCHANGED <<loaded_chunks, reload, seen>>
       ELSE /\ pc' = "x_status"
            /\ seen' = chunks[IVec3ZERO].version
            /\ IF IVec3ZERO \in DOMAIN loaded_chunks
               THEN IF chunks[IVec3ZERO].version # loaded_chunks[IVec3ZERO]
                    THEN /\ loaded_chunks' = [loaded_chunks EXCEPT
                                                 ![IVec3ZERO] = chunks[IVec3ZERO].version]
                         /\ reload' = TRUE
                    ELSE /\ reload' = FALSE
                         /\ UNCHANGED loaded_chunks
               ELSE /\ loaded_chunks' = [c \in {IVec3ZERO} |-> chunks[IVec3ZERO].version]
                    /\ reload' = FALSE
    /\ UNCHANGED <<worldVars, bufVars, syncVars, st, feed, encoder, skip>>

\* variant: without the origin chunk extract still goes on to the status match
ExtractResolve_NoEarlyReturn ==
    /\ pc = "frame"
    /\ pc' = "x_status"
    /\ IF IVec3ZERO \notin DOMAIN chunks
       THEN UNCHANGED <<loaded_chunks, reload, seen>>
       ELSE /\ seen' = chunks[IVec3ZERO].version
            /\ loaded_chunks' = [c \in {IVec3ZERO} |-> chunks[IVec3ZERO].version]
            /\ reload' = (\/ IVec3ZERO \notin DOMAIN loaded_chunks
                          \/ loaded_chunks[IVec3ZERO] # chunks[IVec3ZERO].version)
    /\ UNCHANGED <<worldVars, bufVars, syncVars, st, feed, encoder, skip>>

\* lines 263-300: chunk lookup, Residency Tracker, upload decision
ExtractResolve ==
    /\ pc = "frame"
    /\ IF IVec3ZERO \notin DOMAIN chunks
       THEN /\ pc' = "render"
            /\ UNCHANGED <<loaded_chunks, reload, seen>>
       ELSE /\ pc' = "x_status"
            /\ seen' = chunks[IVec3ZERO].version
            /\ IF IVec3ZERO \in DOMAIN loaded_chunks
               THEN IF chunks[IVec3ZERO].version # loaded_chunks[IVec3ZERO]
                    THEN /\ loaded_chunks' = [loaded_chunks EXCEPT
                                                 ![IVec3ZERO] = chunks[IVec3ZERO].version]
                         /\ reload' = TRUE
                    ELSE /\ reload' = FALSE
                         /\ UNCHANGED loaded_chunks
               ELSE /\ loaded_chunks' = [c \in {IVec3ZERO} |-> chunks[IVec3ZERO].version]
                    /\ reload' = TRUE
    /\ UNCHANGED <<worldVars, bufVars, syncVars, st, feed, encoder, skip>>

\* variant: the WaitForRead branch reads the buffer as if it were mapped
ExtractReadStatus_EagerView ==
    /\ pc = "x_status"
    /\ st' = status
    /\ pc' = CASE status = "Idle" -> "x_setwait"
               [] status = "WaitForRead" -> "x_view"
               [] status = "Mapped" -> "x_view"
    /\ UNCHANGED <<worldVars, bufVars, syncVars, feed, reload, encoder,
                   loaded_chunks, seen, skip>>

\* variant: the WaitForRead branch issues the map request again
ExtractReadStatus_Reissue ==
    /\ pc = "x_status"
    /\ st' = status
    /\ pc' = CASE status = "Idle" -> "x_setwait"
               [] status = "WaitForRead" -> "x_map"
               [] status = "Mapped" -> "x_view"
    /\ UNCHANGED <<worldVars, bufVars, syncVars, feed, reload, encoder,
                   loaded_chunks, seen, skip>>

\* lines 302-303: read the status and branch on the copy
ExtractReadStatus ==
    /\ pc = "x_status"
    /\ st' = status
    /\ pc' = CASE status = "Idle" -> "x_setwait"
               [] status = "WaitForRead" -> "render"
               [] status = "Mapped" -> "x_view"
    /\ UNCHANGED <<worldVars, bufVars, syncVars, feed, reload, encoder,
                   loaded_chunks, seen, skip>>

\* variant: the map request is issued first and WaitForRead is written after it
ExtractSetWait_AfterRequest ==
    \/ /\ pc = "x_setwait"
       /\ IF buf_map = "unmapped"
          THEN buf_map' = "pending" /\ UNCHANGED panicked
          ELSE panicked' = TRUE /\ UNCHANGED buf_map
       /\ pc' = "x_latewait"
       /\ UNCHANGED <<worldVars, bufVars, status, views, st, feed, reload,
                      encoder, loaded_chunks, seen, skip>>
    \/ /\ pc = "x_latewait"
       /\ status' = "WaitForRead"
       /\ pc' = "render"
       /\ UNCHANGED <<worldVars, bufVars, buf_map, panicked, views, st, feed,
                      reload, encoder, loaded_chunks, seen, skip>>

\* variant: the Idle branch issues the request without writing WaitForRead
ExtractSetWait_Forgotten ==
    /\ pc = "x_setwait"
    /\ pc' = "x_map"
    /\ UNCHANGED <<worldVars, bufVars, syncVars, st, feed,
                   reload, encoder, loaded_chunks, seen, skip>>

\* line 305
ExtractSetWait ==
    /\ pc = "x_setwait"
    /\ status' = "WaitForRead"
    /\ pc' = "x_map"
    /\ UNCHANGED <<worldVars, bufVars, buf_map, panicked, views, st, feed,
                   reload, encoder, loaded_chunks, seen, skip>>

\* lines 306-316: slice.map_async(Read, callback).  A request on a buffer that
\* is already mapped or has a request pending is rejected: its callback gets
\* Err at once.
ExtractMapAsync ==
    /\ pc = "x_map"
    /\ IF buf_map = "unmapped"
       THEN buf_map' = "pending" /\ UNCHANGED panicked
       ELSE panicked' = TRUE /\ UNCHANGED buf_map
    /\ pc' = "render"
    /\ UNCHANGED <<worldVars, bufVars, status, views, st, feed, reload,
                   encoder, loaded_chunks, seen, skip>>

\* lines 321-322: get_mapped_range and the cast to &Feedback
ExtractGetMapped ==
    /\ pc = "x_view"
    /\ feed' = feedback_cpu
    /\ views' = views + 1
    /\ pc' = "x_unmap"
    /\ UNCHANGED <<worldVars, bufVars, status, buf_map, panicked, st, reload,
                   encoder, loaded_chunks, seen, skip>>

\* variant: the unmap call is forgotten
ExtractUnmap_Forgotten ==
    /\ pc = "x_unmap"
    /\ pc' = "x_setidle"
    /\ UNCHANGED <<worldVars, bufVars, syncVars, st, feed,
                   reload, encoder, loaded_chunks, seen, skip>>

\* lines 323-324
ExtractUnmap ==
    /\ pc = "x_unmap"
    /\ buf_map' = "unmapped"
    /\ pc' = "x_setidle"
    /\ UNCHANGED <<worldVars, bufVars, status, panicked, views, st, feed,
                   reload, encoder, loaded_chunks, seen, skip>>

\* variant: the Mapped branch writes WaitForRead instead of Idle
ExtractSetIdle_SetsWait ==
    /\ pc = "x_setidle"
    /\ status' = "WaitForRead"
    /\ pc' = "x_clear"
    /\ UNCHANGED <<worldVars, bufVars, buf_map, panicked, views, st, feed,
                   reload, encoder, loaded_chunks, seen, skip>>

\* line 325
ExtractSetIdle ==
    /\ pc = "x_setidle"
    /\ status' = "Idle"
    /\ pc' = "x_clear"
    /\ UNCHANGED <<worldVars, bufVars, buf_map, panicked, views, st, feed,
                   reload, encoder, loaded_chunks, seen, skip>>

\* variant: the reset of the GPU feedback buffer is forgotten
ExtractClear_Forgotten ==
    /\ pc = "x_clear"
    /\ pc' = "render"
    /\ UNCHANGED <<worldVars, bufVars, syncVars, st, feed, reload, encoder,
                   loaded_chunks, seen, skip>>

\* variant: after the reset the same tick goes on to issue the next map request
ExtractClear_ThenRequest ==
    /\ pc = "x_clear"
    /\ write_queued' = TRUE
    /\ pc' = "x_setwait"
    /\ UNCHANGED <<worldVars, feedback_gpu, feedback_cpu, stream_buffer, resident,
                   syncVars, st, feed, reload, encoder, loaded_chunks, seen, skip>>

\* lines 327-334: nothing is written to the Stream Buffer (line 327 is a
\* comment only); the reset of the GPU feedback buffer is staged on the queue
ExtractClear ==
    /\ pc = "x_clear"
    /\ write_queued' = TRUE
    /\ pc' = "render"
    /\ UNCHANGED <<worldVars, feedback_gpu, feedback_cpu, stream_buffer, resident,
                   syncVars, st, feed, reload, encoder, loaded_chunks, seen, skip>>

\* ---- the map_async callback (lines 308-316) ---------------------------
\* variant: the callback reads the mapped memory itself
MapCallbackOk_Consumes ==
    /\ buf_map = "pending"
    /\ buf_map' = "mapped"
    /\ status' = "Mapped"
    /\ feed' = feedback_cpu
    /\ views' = 1
    /\ UNCHANGED <<worldVars, bufVars, panicked, pc, st, reload, encoder,
                   loaded_chunks, seen, skip>>

\* variant: the callback hands the buffer straight back to Idle
MapCallbackOk_SetsIdle ==
    /\ buf_map = "pending"
    /\ buf_map' = "mapped"
    /\ status' = "Idle"
    /\ views' = 0
    /\ UNCHANGED <<worldVars, bufVars, panicked, tickVars>>

MapCallbackOk ==
    /\ buf_map = "pending"
    /\ buf_map' = "mapped"
    /\ status' = "Mapped"
    /\ views' = 0
    /\ UNCHANGED <<worldVars, bufVars, panicked, tickVars>>

\* variant: a failed request resets the status so that the next tick retries
MapCallbackErr_Retries ==
    /\ buf_map = "pending"
    /\ buf_map' = "unmapped"
    /\ status' = "Idle"
    /\ panicked' = TRUE
    /\ UNCHANGED <<worldVars, bufVars, views, tickVars>>

MapCallbackErr ==
    /\ buf_map = "pending"
    /\ buf_map' = "unmapped"
    /\ panicked' = TRUE
    /\ UNCHANGED <<worldVars, bufVars, status, views, tickVars>>

\* ---- RenderState::render (main.rs) and Pipeline::render ----------------
\* main.rs 474-486: get_current_texture()? and the new CommandEncoder;
\* main.rs 489-490: a skipped pipeline records nothing
RenderBegin ==
    /\ pc = "render"
    /\ \/ /\ pc' = "frame"          \* SurfaceError: render returns, no submit
          /\ st' = "none"
          /\ feed' = <<>>
          /\ UNCHANGED encoder
       \/ /\ encoder' = <<>>
          /\ pc' = IF skip THEN "submit" ELSE "r_compute"
          /\ UNCHANGED <<st, feed>>
    /\ UNCHANGED <<worldVars, bufVars, syncVars, reload, loaded_chunks, seen, skip>>

\* variant: the feedback copy is recorded at the start of render
RenderCompute_CopyFirst ==
    /\ pc = "r_compute"
    /\ encoder' = IF status = "Idle"
                  THEN encoder \o <<"copy", "compute">>
                  ELSE Append(encoder, "compute")
    /\ pc' = "r_pass"
    /\ UNCHANGED <<worldVars, bufVars, syncVars, st, feed, reload,
                   loaded_chunks, seen, skip>>

\* variant: the stream dispatch is recorded only when extract flagged an upload
RenderCompute_OnlyOnUpload ==
    /\ pc = "r_compute"
    /\ encoder' = IF reload THEN Append(encoder, "compute") ELSE encoder
    /\ pc' = "r_pass"
    /\ UNCHANGED <<worldVars, bufVars, syncVars, st, feed, reload,
                   loaded_chunks, seen, skip>>

\* pipeline.rs 359-366
RenderCompute ==
    /\ pc = "r_compute"
    /\ encoder' = Append(encoder, "compute")
    /\ pc' = "r_pass"
    /\ UNCHANGED <<worldVars, bufVars, syncVars, st, feed, reload,
                   loaded_chunks, seen, skip>>

\* pipeline.rs 368-401
RenderPass ==
    /\ pc = "r_pass"
    /\ encoder' = Append(encoder, "render")
    /\ pc' = "r_copy"
    /\ UNCHANGED <<worldVars, bufVars, syncVars, st, feed, reload,
                   loaded_chunks, seen, skip>>

\* variant: the copy is recorded whatever the status is
RenderCopy_Always ==
    /\ pc = "r_copy"
    /\ encoder' = Append(encoder, "copy")
    /\ pc' = "submit"
    /\ UNCHANGED <<worldVars, bufVars, syncVars, st, feed, reload,
                   loaded_chunks, seen, skip>>

\* variant: the copy is recorded unless a request is in flight
RenderCopy_UnlessWaiting ==
    /\ pc = "r_copy"
    /\ encoder' = IF status # "WaitForRead" THEN Append(encoder, "copy") ELSE encoder
    /\ pc' = "submit"
    /\ UNCHANGED <<worldVars, bufVars, syncVars, st, feed, reload,
                   loaded_chunks, seen, skip>>

\* pipeline.rs 403-414
RenderCopy ==
    /\ pc = "r_copy"
    /\ encoder' = IF status = "Idle" THEN Append(encoder, "copy") ELSE encoder
    /\ pc' = "submit"
    /\ UNCHANGED <<worldVars, bufVars, syncVars, st, feed, reload,
                   loaded_chunks, seen, skip>>

\* what the fragment shader stores through bind group 3 during the render
\* pass: w[i] = 0 leaves slot i alone, w[i] > 0 stores request w[i]
ShaderWrite(g, w) ==
    [i \in Slots |-> IF i \in DOMAIN w /\ w[i] # 0 THEN w[i] ELSE g[i]]

\* the compute dispatch of the stream pipeline (entry point "copy"): every
\* filled Stream Buffer slot is copied into the Resident Grid
StreamCopy(res, stream) == res \cup ({ stream[k] : k \in Slots } \ {0})

\* the device executes the recorded commands in order
RECURSIVE ExecCommands(_, _, _, _)
ExecCommands(cmds, g, c, w) ==
    IF cmds = <<>>
    THEN <<g, c>>
    ELSE CASE Head(cmds) = "compute" -> ExecCommands(Tail(cmds), g, c, w)
           [] Head(cmds) = "render" -> ExecCommands(Tail(cmds), ShaderWrite(g, w), c, w)
           [] Head(cmds) = "copy" -> ExecCommands(Tail(cmds), g, g, w)

\* main.rs 501: queue.submit: staged write_buffer data lands first, then the
\* command buffer runs
Submit ==
    /\ pc = "submit"
    /\ \E w \in [1..MaxSlot -> 0..MaxReq] :
          LET g0 == IF write_queued THEN Feedback_empty ELSE feedback_gpu
              r == ExecCommands(encoder, g0, feedback_cpu, w)
          IN  /\ feedback_gpu' = r[1]
              /\ feedback_cpu' = r[2]
    /\ resident' = IF \E i \in 1..Len(encoder) : encoder[i] = "compute"
                   THEN StreamCopy(resident, stream_buffer)
                   ELSE resident
    /\ write_queued' = FALSE
    /\ encoder' = <<>>
    /\ st' = "none"
    /\ feed' = <<>>
    /\ pc' = "frame"
    /\ UNCHANGED <<worldVars, stream_buffer, syncVars, reload, loaded_chunks, seen, skip>>

\* main.rs 710-719: a digit key toggles the pipeline's skip flag
ToggleSkip ==
    /\ pc = "frame"
    /\ skip' = ~skip
    /\ UNCHANGED <<worldVars, bufVars, syncVars, pc, st, feed, reload,
                   encoder, loaded_chunks, seen>>

\* ========================================================================
\* Specifications
\* ========================================================================
InitPipeline ==
    /\ status = "Idle"
    /\ buf_map = "unmapped"
    /\ feedback_gpu = Feedback_empty
    /\ feedback_cpu = Feedback_empty
    /\ write_queued = FALSE
    /\ stream_buffer = StreamEmpty
    /\ loaded_chunks = [c \in {} |-> 0]
    /\ skip = FALSE
    /\ panicked = FALSE
    /\ pc = "frame"
    /\ st = "none"
    /\ feed = <<>>
    /\ reload = FALSE
    /\ encoder = <<>>
    /\ seen = -1
    /\ resident = {}
    /\ views = 0

Init ==
    /\ chunks \in {simple_universe, Universe_default}
    /\ last_op = NoOp
    /\ held = [t \in Threads |-> {}]
    /\ twin = NoTwin
    /\ InitPipeline

Next ==
    \/ ExtractResolve
    \/ ExtractReadStatus
    \/ ExtractSetWait
    \/ ExtractMapAsync
    \/ ExtractGetMapped
    \/ ExtractUnmap
    \/ ExtractSetIdle
    \/ ExtractClear
    \/ MapCallbackOk
    \/ MapCallbackErr
    \/ RenderBegin
    \/ RenderCompute
    \/ RenderPass
    \/ RenderCopy
    \/ Submit
    \/ ToggleSkip

Spec == Init /\ [][Next]_vars

\* one step of extract, render or submit of the running frame
Tick ==
    \/ ExtractResolve \/ ExtractReadStatus \/ ExtractSetWait \/ ExtractMapAsync
    \/ ExtractGetMapped \/ ExtractUnmap \/ ExtractSetIdle \/ ExtractClear
    \/ RenderBegin \/ RenderCompute \/ RenderPass \/ RenderCopy \/ Submit

\* the frame loop as scheduled: every RedrawRequested requests the next
\* redraw (main.rs 772), so frames keep running, and the device completes a
\* pending map request
SpecFair == Spec /\ WF_vars(Tick) /\ WF_vars(MapCallbackOk)

NextWorld == WriteBlock \/ ReadBlock

SpecWorld == Init /\ [][NextWorld]_vars

\* the version counter of a chunk advances between two frames.  Nothing in
\* voxels.rs maintains the counter that extract reads; its evolution (strictly
\* increasing, never reused) is taken from the data model of the design.
BumpVersion ==
    /\ pc = "frame"
    /\ \E c \in DOMAIN chunks :
          /\ chunks[c].version < MaxVersion
          /\ chunks' = [chunks EXCEPT ![c].version = @ + 1]
    /\ UNCHANGED <<last_op, held, twin, bufVars, syncVars, tickVars>>

\* the frame loop with the pipeline switched off by its digit key (main.rs
\* 710-719, so render records nothing for it: main.rs 490) while extract keeps
\* running every frame and the chunk's version advances between frames
InitTrack ==
    /\ chunks \in {simple_universe, Universe_default}
    /\ last_op = NoOp
    /\ held = [t \in Threads |-> {}]
    /\ twin = NoTwin
    /\ status = "Idle"
    /\ buf_map = "unmapped"
    /\ feedback_gpu = Feedback_empty
    /\ feedback_cpu = Feedback_empty
    /\ write_queued = FALSE
    /\ stream_buffer = StreamEmpty
    /\ loaded_chunks = [c \in {} |-> 0]
    /\ skip = TRUE
    /\ panicked = FALSE
    /\ pc = "frame"
    /\ st = "none"
    /\ feed = <<>>
    /\ reload = FALSE
    /\ encoder = <<>>
    /\ seen = -1
    /\ resident = {}
    /\ views = 0

NextTrack ==
    \/ ExtractResolve
    \/ ExtractReadStatus
    \/ ExtractSetWait
    \/ ExtractMapAsync
    \/ ExtractGetMapped
    \/ ExtractUnmap
    \/ ExtractSetIdle
    \/ ExtractClear
    \/ MapCallbackOk
    \/ MapCallbackErr
    \/ RenderBegin
    \/ Submit
    \/ BumpVersion

SpecTrack == InitTrack /\ [][NextTrack]_vars

\* the switched-off frame loop as scheduled: extract still runs on every
\* RedrawRequested (main.rs 770-781), each of which requests the next redraw
\* (main.rs 772), and the device completes a pending map request
SpecCycle == SpecTrack /\ WF_vars(Tick) /\ WF_vars(MapCallbackOk)

\* threads taking and dropping guards on the chunks of a World with three chunks
ThreeChunks ==
    set_chunk_block(
        set_chunk_block(simple_universe, <<-1, -1, -1>>, Block_from_id(1)),
        <<32, 0, 31>>, Block_from_id(1))

InitLock ==
    /\ chunks = ThreeChunks
    /\ last_op = NoOp
    /\ held = [t \in Threads |-> {}]
    /\ twin = NoTwin
    /\ InitPipeline

NextLock ==
    \E t \in Threads :
        \/ \E c \in DOMAIN chunks : Chunk_get_ref(t, c)
        \/ \E c \in DOMAIN chunks : Chunk_get_mut(t, c)
        \/ \E g \in held[t] : DropGuard(t, g)

SpecLock == InitLock /\ [][NextLock]_vars

\* read_block over the World built by simple_universe: the position is drawn
\* at start
InitSphere ==
    /\ chunks = simple_universe
    /\ held = [t \in Threads |-> {}]
    /\ twin = NoTwin
    /\ last_op \in { [op |-> "probe", pos |-> p, block |-> BlockDefault, ret |-> <<>>] :
                         p \in SpherePositions }
    /\ InitPipeline

NextSphere == ReadProbe

SpecSphere == InitSphere /\ [][NextSphere]_vars

\* a Universe and its clone, both written and read
InitClone ==
    /\ chunks = simple_universe
    /\ last_op = NoOp
    /\ held = [t \in Threads |-> {}]
    /\ twin = NoTwin
    /\ InitPipeline

NextClone == CloneUniverse \/ WriteOriginal \/ WriteTwin \/ ReadOriginal \/ ReadTwin

SpecClone == InitClone /\ [][NextClone]_vars

\* xyz2idx and idx2xyz on their own, over every index of a chunk's array and
\* every inner coordinate
InitIndex ==
    /\ chunks = Universe_default
    /\ held = [t \in Threads |-> {}]
    /\ twin = NoTwin
    /\ last_op \in
          { [op |-> "index", pos |-> IVec3ZERO, block |-> BlockDefault, ret |-> <<i>>] :
                i \in 0..(CHUNK_VOLUME - 1) }
          \cup
          { [op |-> "inner", pos |-> <<x, y, z>>, block |-> BlockDefault, ret |-> <<>>] :
                x \in 0..(CHUNK_SIDE - 1), y \in 0..(CHUNK_SIDE - 1),
                z \in 0..(CHUNK_SIDE - 1) }
    /\ InitPipeline

NextIndex == IndexThere \/ CoordThere

SpecIndex == InitIndex /\ [][NextIndex]_vars

\* pos_to_chunk_and_inner on its own: the coordinate is drawn at start
InitCoord ==
    /\ chunks = simple_universe
    /\ held = [t \in Threads |-> {}]
    /\ twin = NoTwin
    /\ last_op \in { [op |-> "arg", pos |-> p, block |-> BlockDefault, ret |-> <<>>] :
                         p \in CoordInputs }
    /\ InitPipeline

NextCoord == ResolvePos

SpecCoord == InitCoord /\ [][NextCoord]_vars

\* ========================================================================
\* Properties
\* ========================================================================
LegalTransitions ==
    { <<"Idle", "WaitForRead">>, <<"WaitForRead", "Mapped">>, <<"Mapped", "Idle">> }

\* C1: in every step the feedback read status either stays as it is or moves
\* along Idle->WaitForRead, WaitForRead->Mapped or Mapped->Idle.
C1_LegalTransitions ==
    [][status' # status => <<status, status'>> \in LegalTransitions]_vars

\* a whole cycle has been walked: a view was taken after a completion and the
\* status is back to Idle
C1_Witness == status = "Idle" /\ views = 1 /\ buf_map = "unmapped"

\* C2: whenever map_async is issued on the feedback CPU buffer, the buffer is
\* unmapped, i.e. no earlier request is pending and the buffer is not mapped;
\* a pending request always goes with status WaitForRead.
C2_OneOutstanding ==
    [][/\ (pc = "x_map" /\ pc' # "x_map") => buf_map = "unmapped"
       /\ buf_map' = "pending" => status' = "WaitForRead"]_vars

\* a second request is outstanding after an earlier one was completed and consumed
C2_Witness == buf_map = "pending" /\ views = 1

\* C3: once a map request has completed with an error, the status is
\* WaitForRead (never Mapped or Idle), the buffer has no request pending and
\* the tick loop is never again in the branch that issues a request or
\* consumes a mapping.
C3_ErrorFatal ==
    panicked =>
        /\ status = "WaitForRead"
        /\ buf_map = "unmapped"
        /\ pc \notin {"x_setwait", "x_map", "x_view", "x_unmap", "x_setidle", "x_clear"}

\* a tick runs after the failure and observes WaitForRead
C3_Witness == panicked /\ st = "WaitForRead" /\ pc = "submit"

\* C4: at the end of the extract that consumed a completed read-back, every
\* non-zero request read from the feedback buffer has its payload in a slot
\* of the Stream Buffer.
C4_StreamFilled ==
    (pc = "render" /\ st = "Mapped") =>
        \A i \in Slots :
            feed[i] # 0 => \E k \in Slots : stream_buffer[k] = feed[i]

\* the device-side feedback contents any later submitted command observes
DeviceFeedback == IF write_queued THEN Feedback_empty ELSE feedback_gpu

\* C5 (as stated): after the tick that takes the status from Mapped to Idle,
\* the device-side Feedback Channel has 256 slots and all of them are zero.
C5_Original ==
    (pc = "render" /\ st = "Mapped") =>
        /\ Len(DeviceFeedback) = 256
        /\ \A i \in 1..256 : DeviceFeedback[i] = 0

\* C5 (amended): after the tick that takes the status from Mapped to Idle,
\* the device-side Feedback Channel has FEEDBACK_BUFFER_SIZE = 16 slots and
\* all of them are zero.
C5_ClearedAfterCycle ==
    (pc = "render" /\ st = "Mapped") =>
        /\ status = "Idle"
        /\ Len(DeviceFeedback) = FEEDBACK_BUFFER_SIZE
        /\ \A i \in Slots : DeviceFeedback[i] = 0

\* the consuming tick ends while the device buffer still holds misses
C5_Witness ==
    pc = "render" /\ st = "Mapped" /\ feedback_gpu # Feedback_empty

CopyAfterRenderPass(enc) ==
    \A i \in 1..Len(enc) :
        enc[i] = "copy" => \E j \in 1..(i - 1) : enc[j] = "render"

\* C6: in every command encoder the feedback copy is recorded after the
\* render pass, and the reset of the device-side channel is staged only in a
\* tick whose extract has already read the mapped read-back data.
C6_CopyAfterPassClearAfterRead ==
    [][/\ CopyAfterRenderPass(encoder')
       /\ (~write_queued /\ write_queued') => (st = "Mapped" /\ feed # <<>>)]_vars

\* a submission that carries the copy, in the tick that staged the reset
C6_Witness ==
    pc = "submit" /\ write_queued /\ encoder = <<"compute", "render", "copy">>

\* C7: a mapped view is taken only while the buffer is mapped and none was
\* taken yet for this completion; unmap is called only on a mapped buffer
\* after exactly one view.
C7_ViewOnlyWhileMapped ==
    [][/\ (views' # views /\ views' > 0) =>
              (buf_map = "mapped" /\ status = "Mapped" /\ views = 0)
       /\ (pc = "x_unmap" /\ pc' # "x_unmap") =>
              (buf_map = "mapped" /\ views = 1)]_vars

\* the buffer was just unmapped after its single view
C7_Witness == pc = "x_setidle" /\ buf_map = "unmapped" /\ views = 1

ReadBackPcs == {"x_setwait", "x_map", "x_view", "x_unmap", "x_setidle", "x_clear"}

\* C8: while a map request stays pending (every step that is not its
\* completion), the status stays WaitForRead, nothing is read back, no reset
\* is staged, no new request is issued and no feedback copy is recorded, and
\* every call of render still records the compute and the render pass.
C8_StallKeepsRendering ==
    [][(buf_map = "pending" /\ buf_map' = "pending") =>
          /\ status = "WaitForRead" /\ status' = "WaitForRead"
          /\ feed' = <<>>
          /\ views' = views
          /\ write_queued' => write_queued
          /\ pc' \notin ReadBackPcs \/ pc' = pc
          /\ \A i \in 1..Len(encoder') : encoder'[i] # "copy"
          /\ (pc = "r_copy" /\ pc' = "submit") =>
                 encoder' = <<"compute", "render">>]_vars

\* a tick that observed WaitForRead reaches submit with the request still pending
C8_Witness ==
    /\ buf_map = "pending" /\ st = "WaitForRead"
    /\ pc = "submit" /\ encoder = <<"compute", "render">>

\* C9: a read_chunk_block(p) that directly follows set_chunk_block(p, b)
\* returns Some(b).
C9_RoundTrip ==
    [][(last_op.op = "set" /\ last_op'.op = "read" /\ last_op'.pos = last_op.pos)
          => last_op'.ret = <<last_op.block>>]_vars

\* a block that only a write can have put there is read back from a chunk
\* that the write created
C9_Witness ==
    /\ last_op.op = "read"
    /\ last_op.pos = <<-1, -1, -1>>
    /\ last_op.ret = <<[id |-> 1, properties |-> 1, light0 |-> 0, light1 |-> 0]>>

\* C10: every set_chunk_block on an existing chunk strictly increases that
\* chunk's version, and read_chunk_block changes no version.
C10_VersionMonotone ==
    [][/\ (last_op' # last_op /\ last_op'.op = "set") =>
              LET c == pos_to_chunk_and_inner(last_op'.pos).chunk_pos
              IN  c \in DOMAIN chunks => chunks'[c].version > chunks[c].version
       /\ (last_op' # last_op /\ last_op'.op = "read") => chunks' = chunks]_vars

\* C11: for every world coordinate, negative components included,
\* pos_to_chunk_and_inner returns a chunk coordinate whose components are
\* multiples of 32 and an inner coordinate with components in 0..31 that add
\* up to the coordinate; (-1,-1,-1) gives (-32,-32,-32) and (31,31,31).
C11_EuclideanSplit ==
    last_op.op = "resolve" =>
        LET p == last_op.pos
            c == last_op.ret[1]
            i == last_op.ret[2]
        IN  /\ \A k \in 1..3 :
                   /\ c[k] % CHUNK_SIDE = 0
                   /\ i[k] \in 0..(CHUNK_SIDE - 1)
                   /\ c[k] + i[k] = p[k]
            /\ p = <<-1, -1, -1>> => (c = <<-32, -32, -32>> /\ i = <<31, 31, 31>>)

\* (-1,-1,-1) has been resolved
C11_Witness ==
    /\ last_op.op = "resolve"
    /\ last_op.pos = <<-1, -1, -1>>
    /\ last_op.ret = << <<-32, -32, -32>>, <<31, 31, 31>> >>

IsReadStep == last_op' # last_op /\ last_op'.op = "read"

IsWriteStep == last_op' # last_op /\ last_op'.op = "set"

C13_WriteFrame ==
    [][IsWriteStep =>
          LET r == pos_to_chunk_and_inner(last_op'.pos)
              c == r.chunk_pos
          IN  /\ DOMAIN chunks' = DOMAIN chunks \cup {c}
              /\ chunks'[c].dirty_render = TRUE
              /\ chunks'[c].blocks[xyz2idx(r.inner_pos)] = last_op'.block
              /\ c \notin DOMAIN chunks =>
                     \A i \in TrackedIdx \ {xyz2idx(r.inner_pos)} :
                         chunks'[c].blocks[i] = BlockDefault
              /\ \A d \in DOMAIN chunks \ {c} : chunks'[d] = chunks[d]]_vars

\* a write has created a chunk next to an origin chunk that was never written
C13_Witness ==
    /\ last_op.op = "set"
    /\ last_op.pos = <<32, 0, 31>>
    /\ DOMAIN chunks = {IVec3ZERO, <<32, 0, 0>>}
    /\ ~chunks[IVec3ZERO].dirty_render
    /\ chunks[<<32, 0, 0>>].dirty_render

\* extract has found the chunk at (0,0,0) and has taken the upload decision
IsResolveStep == pc = "frame" /\ pc' = "x_status"

\* C14: when extract resolves the chunk in a tick and the chunk's version is
\* the one the previous resolving tick saw, it flags no upload (reload is
\* false) and leaves the Residency Tracker unchanged.
C14_ResidencyIdempotent ==
    [][(IsResolveStep /\ seen = chunks[IVec3ZERO].version) =>
          (~reload' /\ loaded_chunks' = loaded_chunks)]_vars

\* a later tick on a chunk whose version had advanced flagged nothing
C14_Witness ==
    /\ pc = "x_status" /\ ~reload
    /\ chunks[IVec3ZERO].version = MaxVersion
    /\ loaded_chunks[IVec3ZERO] = MaxVersion

\* C15: in a tick where the chunk exists, an upload is flagged exactly when
\* the coordinate is absent from the tracker or its stored version differs
\* from the live one, and the same step leaves the live version in the
\* tracker; so a tick flags exactly when the version differs from the one the
\* previous resolving tick saw (or there was none): no change is lost and an
\* unchanged chunk is not flagged again.
C15_UploadDecision ==
    [][IsResolveStep =>
          LET live == chunks[IVec3ZERO].version
          IN  /\ reload' <=> (\/ IVec3ZERO \notin DOMAIN loaded_chunks
                              \/ loaded_chunks[IVec3ZERO] # live)
              /\ loaded_chunks' = [c \in {IVec3ZERO} |-> live]
              /\ reload' <=> (seen # live)]_vars

\* a tick after the first one flagged a re-upload for an advanced version
C15_Witness ==
    /\ pc = "x_status" /\ reload
    /\ buf_map = "pending"
    /\ chunks[IVec3ZERO].version = MaxVersion
    /\ loaded_chunks[IVec3ZERO] = MaxVersion

\* ---- C16 ----
Readers(c) == { t \in Threads : <<c, "read">> \in held[t] }
Writers(c) == { t \in Threads : <<c, "write">> \in held[t] }

\* C16: for every chunk, at most one thread holds a write guard and then no
\* thread holds a read guard on it (readers never see a write in progress);
\* guards on other chunks never block: a thread holding nothing on a chunk can
\* take its write guard whenever the chunk itself is free, and its read guard
\* whenever the chunk itself has no writer, whatever is held on other chunks.
C16_ReadersOrWriter ==
    \A c \in DOMAIN chunks :
        /\ Cardinality(Writers(c)) <= 1
        /\ Writers(c) # {} => Readers(c) = {}
        /\ \A t \in Threads :
              /\ (Readers(c) = {} /\ Writers(c) = {}) => ENABLED Chunk_get_mut(t, c)
              /\ (Writers(c) = {} /\ t \notin Readers(c)) => ENABLED Chunk_get_ref(t, c)

\* two readers share chunk (0,0,0) while one of them writes another chunk
C16_Witness ==
    /\ held[1] = {<<IVec3ZERO, "read">>, <<<<32, 0, 0>>, "write">>}
    /\ <<IVec3ZERO, "read">> \in held[2]

\* ---- C17 ----
\* C17: the World built by simple_universe holds exactly one chunk, at
\* (0,0,0); every block of it at squared distance below 16*16 from (16,16,16)
\* has id equal to its x coordinate and every other block has id 0, so
\* read_block((16,16,16)) returns a nonzero id and read_block((0,0,0)) id 0.
C17_SphereWorld ==
    /\ DOMAIN chunks = {IVec3ZERO}
    /\ \A p \in SpherePositions :
          chunks[IVec3ZERO].blocks[p[1] * 1024 + p[2] * 32 + p[3]].id =
              IF distance_squared(p, <<16, 16, 16>>) < 16 * 16 THEN p[1] ELSE 0
    /\ last_op.op = "read" =>
          /\ Len(last_op.ret) = 1
          /\ last_op.ret[1].id =
                 IF distance_squared(last_op.pos, <<16, 16, 16>>) < 16 * 16
                 THEN last_op.pos[1] ELSE 0
          /\ last_op.pos = <<16, 16, 16>> => last_op.ret[1].id # 0
          /\ last_op.pos = <<0, 0, 0>> => last_op.ret[1].id = 0

\* a block inside the sphere has been read and carries its x coordinate
C17_Witness ==
    /\ last_op.op = "read"
    /\ last_op.pos = <<31, 16, 16>>
    /\ last_op.ret = <<Block_from_id(31)>>

\* ---- C18 ----
\* C18: a miss for a chunk that is not resident, once it has re-entered the
\* Feedback Channel and been read back by the host, leads to that chunk being
\* resident again.
C18_EvictionHeals ==
    \A r \in 1..MaxReq :
        (pc = "render" /\ st = "Mapped" /\ r \notin resident
            /\ \E i \in Slots : feed[i] = r)
          ~> (r \in resident)

\* ---- C19 ----
\* C19: the map request is issued only once the status already reads
\* WaitForRead, so whenever the completion callback runs, its Mapped is never
\* replaced by WaitForRead (Mapped is left only for Idle) and a mapped buffer
\* always shows as Mapped: the completion is never lost.
C19_WaitBeforeRequest ==
    [][/\ (buf_map # "pending" /\ buf_map' = "pending") =>
             (status = "WaitForRead" /\ status' = "WaitForRead")
       /\ status = "Mapped" => status' \in {"Mapped", "Idle"}
       /\ buf_map' = "mapped" => status' = "Mapped"]_vars

\* the request completed before the tick that issued it went on to render
C19_Witness ==
    /\ pc = "render" /\ st = "Idle"
    /\ buf_map = "mapped" /\ status = "Mapped"

\* ---- C20 ----
\* C20: a tick that reads the status as WaitForRead goes straight on to
\* render, and none of its steps (the steps that move the tick, as opposed to
\* the completion callback) issues a map request, reads or unmaps the
\* feedback CPU buffer, stages a clear of the device feedback buffer, or
\* changes the status.
C20_WaitTickNoReadBack ==
    [][/\ (pc = "x_status" /\ status = "WaitForRead" /\ pc' # pc) =>
             (st' = "WaitForRead" /\ pc' = "render")
       /\ (st' = "WaitForRead" /\ pc' # pc) =>
             /\ pc' \notin ReadBackPcs
             /\ buf_map' = buf_map /\ panicked' = panicked
             /\ views' = views /\ feed' = <<>>
             /\ write_queued' = write_queued
             /\ status' = status]_vars

\* a tick observed WaitForRead and is recording its render commands with the
\* request still in flight
C20_Witness ==
    /\ st = "WaitForRead" /\ pc = "r_pass"
    /\ buf_map = "pending" /\ status = "WaitForRead"
    /\ feed = <<>> /\ views = 0

\* ---- C21 ----
\* C21: in the tick that observes Mapped the host reads the mapped memory,
\* then clears the device feedback buffer, then unmaps, then writes Idle: the
\* clear is staged only after the read, the buffer is unmapped only once the
\* clear is staged, and the status becomes Idle only once the buffer is
\* unmapped and the clear is staged.
C21_MappedOrder ==
    [][/\ (~write_queued /\ write_queued') => (feed # <<>> /\ buf_map = "mapped")
       /\ (buf_map = "mapped" /\ buf_map' = "unmapped") =>
             (feed # <<>> /\ write_queued)
       /\ (status = "Mapped" /\ status' = "Idle") =>
             (buf_map = "unmapped" /\ write_queued)]_vars

\* ---- C22 ----
\* C22: the completion callback runs only while the status is WaitForRead and
\* changes nothing but the status (to Mapped): it leaves the tick's position,
\* the bytes it read and both feedback buffers alone; taking a view, unmapping,
\* staging the clear and writing Idle are steps of the tick loop only, and the
\* tick writes Idle after exactly one view of the completed read-back.
C22_OnlyTickConsumes ==
    [][/\ (buf_map = "pending" /\ buf_map' = "mapped") =>
             /\ status = "WaitForRead" /\ status' = "Mapped"
             /\ pc' = pc /\ st' = st /\ feed' = feed
             /\ write_queued' = write_queued
             /\ feedback_gpu' = feedback_gpu /\ feedback_cpu' = feedback_cpu
       /\ views' > views => pc = "x_view"
       /\ (buf_map = "mapped" /\ buf_map' # "mapped") => pc = "x_unmap"
       /\ (~write_queued /\ write_queued') => pc = "x_clear"
       /\ (status = "Mapped" /\ status' # "Mapped") =>
             (pc = "x_setidle" /\ status' = "Idle" /\ views = 1)]_vars

\* the tick has consumed the completed read-back once and written Idle
C22_Witness ==
    /\ pc = "x_clear" /\ st = "Mapped"
    /\ status = "Idle" /\ views = 1 /\ Len(feed) = FEEDBACK_BUFFER_SIZE

\* ---- C23 ----
\* C23 (as stated): when the extract of a tick that found the read-back
\* completed returns, the reset of the Feedback Channel is staged and a new
\* map request has been issued.
C23_Original ==
    (pc = "render" /\ st = "Mapped") =>
        (write_queued /\ buf_map \in {"pending", "mapped"})

\* C23 (amended): the extract of a tick that found the read-back completed
\* returns with the reset staged, the status Idle and no map request issued;
\* that tick's render records the device-to-host copy; a map request is
\* issued only by a tick that observed Idle, and such a tick always issues it.
C23_ResetThenRequestNextTick ==
    [][/\ (pc' = "render" /\ st' = "Mapped") =>
             (write_queued' /\ status' = "Idle" /\ buf_map' = "unmapped")
       /\ (buf_map # "pending" /\ buf_map' = "pending") => st = "Idle"
       /\ (st = "Mapped" /\ pc = "r_copy" /\ pc' = "submit") =>
             encoder' = <<"compute", "render", "copy">>
       /\ (pc # "render" /\ pc' = "render" /\ st' = "Idle") =>
             buf_map' = "pending"]_vars

\* the tick that consumed the read-back is about to submit its copy, with the
\* reset staged and no request issued
C23_Witness ==
    /\ pc = "submit" /\ st = "Mapped"
    /\ encoder = <<"compute", "render", "copy">>
    /\ write_queued /\ status = "Idle" /\ buf_map = "unmapped"

\* ---- C24 ----
\* C24: every call of Pipeline::render records the stream compute dispatch
\* first and the render pass second, whatever the status is and whether or
\* not extract flagged an upload: every encoder submitted by a frame that
\* called render starts with the compute pass followed by the render pass.
C24_ComputeEveryRender ==
    /\ pc \in {"r_pass", "r_copy"} => (Len(encoder) >= 1 /\ encoder[1] = "compute")
    /\ pc = "r_copy" => encoder = <<"compute", "render">>
    /\ (pc = "submit" /\ ~skip) =>
          /\ Len(encoder) \in {2, 3}
          /\ encoder[1] = "compute" /\ encoder[2] = "render"

\* render recorded both passes in a tick with nothing to upload, while the
\* request completed under it
C24_Witness ==
    /\ pc = "submit" /\ ~skip /\ ~reload
    /\ st = "WaitForRead" /\ status = "Mapped"
    /\ encoder = <<"compute", "render">>

\* ---- C25 ----
\* C25: whenever the status is Idle the feedback CPU buffer is unmapped with
\* no map request pending, and whenever a copy into it is recorded (a step
\* that appends the copy to the encoder) the buffer is unmapped with no
\* request pending, before and after the step.
C25_IdleMeansUnmapped ==
    [][/\ status' = "Idle" => buf_map' = "unmapped"
       /\ (Len(encoder') > Len(encoder) /\ encoder'[Len(encoder')] = "copy") =>
             /\ status = "Idle"
             /\ buf_map = "unmapped" /\ buf_map' = "unmapped"]_vars

\* a copy has been recorded after a whole read-back cycle
C25_Witness ==
    /\ pc = "submit" /\ Len(encoder) = 3 /\ encoder[3] = "copy"
    /\ status = "Idle" /\ buf_map = "unmapped" /\ views = 1

\* ---- C26 ----
\* C26: with the origin chunk present, the copy is recorded only in a frame
\* whose extract consumed Mapped and staged the clear; the feedback CPU buffer
\* changes only when such a frame is submitted, the clear lands before that
\* frame's render pass, and the snapshot is what that one render pass wrote
\* into an empty buffer; a frame whose extract observed Idle or WaitForRead
\* leaves the CPU buffer alone, so its misses stay on the device until the
\* next clear.
C26_SnapshotOfOneFrame ==
    [][(IVec3ZERO \in DOMAIN chunks) =>
         (/\ (Len(encoder') > Len(encoder) /\ encoder'[Len(encoder')] = "copy") =>
                (st = "Mapped" /\ write_queued)
          /\ (feedback_cpu' # feedback_cpu) =>
                (/\ pc = "submit" /\ st = "Mapped" /\ write_queued
                 /\ \E w \in [1..MaxSlot -> 0..MaxReq] :
                       feedback_cpu' = ShaderWrite(Feedback_empty, w)
                 /\ feedback_gpu' = feedback_cpu')
          /\ (pc = "submit" /\ st \in {"Idle", "WaitForRead"}) =>
                (feedback_cpu' = feedback_cpu))]_vars

\* misses of earlier frames sit in the device buffer when the frame that
\* consumed the read-back is about to submit its copy
C26_Witness ==
    /\ IVec3ZERO \in DOMAIN chunks
    /\ pc = "submit" /\ st = "Mapped" /\ write_queued
    /\ Len(encoder) = 3
    /\ feedback_gpu # Feedback_empty /\ feedback_gpu # feedback_cpu

\* ---- C27 ----
\* C27: when frames keep running, the origin chunk exists and no map request
\* ever fails, the status is Idle again and again and a map request is
\* pending again and again: the read-back cycle never stops.
C27_CycleRepeats ==
    (IVec3ZERO \in DOMAIN chunks /\ []~panicked) =>
        ([]<>(status = "Idle") /\ []<>(buf_map = "pending"))

\* a request of a later cycle is pending: the cycle went round once
C27_Witness ==
    /\ IVec3ZERO \in DOMAIN chunks /\ ~panicked
    /\ buf_map = "pending" /\ status = "WaitForRead" /\ views = 1

\* ---- C28 ----
\* C28: in a tick where the World has no chunk at (0,0,0), extract goes
\* straight to render and leaves the status, the buffer's mapping state, the
\* Residency Tracker, both feedback buffers and the staged writes as they
\* were; as long as the chunk is absent the tick loop never reaches the
\* status match, so it issues no request and consumes nothing.
C28_AbsentChunkSkipsMatch ==
    [][(IVec3ZERO \notin DOMAIN chunks) =>
         (/\ (pc = "frame" /\ pc' # "frame") =>
                (/\ pc' = "render" /\ st' = st /\ feed' = feed
                 /\ status' = status /\ buf_map' = buf_map /\ views' = views
                 /\ loaded_chunks' = loaded_chunks /\ reload' = reload
                 /\ feedback_gpu' = feedback_gpu /\ feedback_cpu' = feedback_cpu
                 /\ write_queued' = write_queued)
          /\ pc' \notin ReadBackPcs \cup {"x_status"}
          /\ status' = status /\ buf_map' = "unmapped" /\ views' = 0
          /\ DOMAIN loaded_chunks' = {})]_vars

\* extract has just returned early in a World without the origin chunk, after
\* earlier frames copied misses to the CPU buffer
C28_Witness ==
    /\ IVec3ZERO \notin DOMAIN chunks
    /\ pc = "render" /\ st = "none"
    /\ status = "Idle" /\ feedback_cpu # Feedback_empty

\* ---- C29 ----
\* C29: for every index i in 0..32767, idx2xyz(i) has all components in
\* 0..31 and xyz2idx(idx2xyz(i)) = i; for every xyz with all components in
\* 0..31, xyz2idx(xyz) is in 0..32767 and idx2xyz(xyz2idx(xyz)) = xyz.  The
\* two maps are therefore inverse bijections: Chunk::iter yields every inner
\* coordinate once and distinct coordinates address distinct blocks.
C29_IndexBijection ==
    /\ last_op.op = "idx2xyz" =>
          /\ \A k \in 1..3 : last_op.pos[k] \in 0..31
          /\ last_op.ret[2] = last_op.ret[1]
    /\ last_op.op = "xyz2idx" =>
          /\ last_op.ret[1] \in 0..32767
          /\ last_op.ret[2] = last_op.pos

\* the last index and the last inner coordinate map to each other
C29_Witness ==
    /\ last_op.op = "idx2xyz"
    /\ last_op.ret = <<32767, 32767>> /\ last_op.pos = <<31, 31, 31>>

\* ---- C30 ----
\* every chunk that came out of the clone reads the same through both copies
ClonesAgree ==
    \A c \in DOMAIN twin.chunks :
        twin.chunks[c].cloned =>
            /\ c \in DOMAIN chunks
            /\ \A p \in ClonePositions :
                  pos_to_chunk_and_inner(p).chunk_pos = c =>
                      read_twin_block(chunks, twin, p) = read_chunk_block(chunks, p)

IsCloned(t, pos) ==
    LET c == pos_to_chunk_and_inner(pos).chunk_pos
    IN  c \in DOMAIN t.chunks /\ t.chunks[c].cloned

\* C30: once a Universe has been cloned, every chunk that was cloned reads
\* the same through the clone and through the original after any sequence of
\* writes; a block written to such a chunk through the clone is what the
\* original reads there, and the other way round; a write through one copy
\* leaves every dirty_render of the other copy unchanged.
C30_CloneSharesArray ==
    [][twin'.made =>
         (/\ ClonesAgree'
          /\ (last_op'.op = "set_twin") =>
                (/\ \A c \in DOMAIN chunks :
                       chunks'[c].dirty_render = chunks[c].dirty_render
                 /\ IsCloned(twin, last_op'.pos) =>
                       read_chunk_block(chunks', last_op'.pos) = <<last_op'.block>>)
          /\ (last_op'.op = "set") =>
                (/\ \A c \in DOMAIN twin.chunks :
                       twin'.chunks[c].dirty_render = twin.chunks[c].dirty_render
                 /\ IsCloned(twin, last_op'.pos) =>
                       read_twin_block(chunks', twin', last_op'.pos)
                           = <<last_op'.block>>))]_vars

\* the original reads the block that was written through the clone, and only
\* the clone's chunk is marked dirty
C30_Witness ==
    /\ twin.made
    /\ last_op.op = "read" /\ last_op.pos = <<16, 16, 16>>
    /\ last_op.ret = <<Block_from_id(1)>>
    /\ twin.chunks[IVec3ZERO].dirty_render /\ ~chunks[IVec3ZERO].dirty_render

====
